---- MODULE Spec2Model ----
(***************************************************************************)
(* Model of the two gymnasium environments of gym_lowcostrobot:            *)
(*   LiftCubeEnv   src/gym_lowcostrobot/envs/lift_cube_env.py              *)
(*   ReachCubeEnv  src/gym_lowcostrobot/envs/reach_cube_env.py             *)
(*                                                                         *)
(* Numbers.  The code works on floats; the model works on fixed-point      *)
(* integers:                                                               *)
(*   lengths      in units of 1e-4 m    (0.5 m    is 5000)                 *)
(*   joint angles in units of 1e-8 rad  (3.14159  is 314159000)            *)
(*   joint rates  in units of 1e-3      (1.0      is 1000)                 *)
(* cube_origin_pos is the one literal of the code that is not on the       *)
(* length grid; it is rounded to it.                                       *)
(*                                                                         *)
(* The physics engine (mj_forward, mj_step, mj_jac, the renderer) is not   *)
(* part of the repository.  What it computes is drawn from small sets:     *)
(* the end-effector position after forward kinematics, the joint rates     *)
(* the Jacobian algebra yields, and the pose the integrator leaves.        *)
(***************************************************************************)
EXTENDS Integers, Sequences, FiniteSets, TLC

VARIABLES
    cls,               \* the class constructed: "LiftCubeEnv" or "ReachCubeEnv"
    observation_mode,  \* self.observation_mode
    action_mode,       \* self.action_mode
    data,              \* self.data: [qpos, qvel, xpos, ctrl]
    step_idx,          \* self.step_idx   (LiftCubeEnv only)
    done,              \* self.done       (LiftCubeEnv only)
    timeout,           \* self.timeout    (LiftCubeEnv only)
    info,              \* self.info       (LiftCubeEnv only)
    pc,                \* position of the running call: "idle", "ik_loop", "ik_ret"
    ik,                \* locals of the running inverse_kinematics call
    ret,               \* what the last reset/step call returned or raised
    reset_from         \* history: what the state looked like when the last reset began

vars == <<cls, observation_mode, action_mode, data, step_idx, done, timeout,
          info, pc, ik, ret, reset_from>>

----------------------------------------------------------------------------
(* Bounds of the model *)

\* Steps of one LiftCubeEnv episode explored under Spec.
MaxSteps == 2

\* Steps beyond episode_length explored under SpecEpisode.
MaxOverrun == 1

----------------------------------------------------------------------------
(* Vectors *)

\* Python's s[a:b] on a 1-indexed sequence.
Slice(s, a, b) == SubSeq(s, a + 1, b)

Zeros(n) == [k \in 1..n |-> 0]

VAdd(u, v) == [k \in 1..Len(u) |-> u[k] + v[k]]

VSub(u, v) == [k \in 1..Len(u) |-> u[k] - v[k]]

RECURSIVE SumSq(_)
SumSq(v) == IF v = <<>> THEN 0 ELSE v[1] * v[1] + SumSq(Tail(v))

\* Largest r with r*r <= n, by bisection on [lo, hi).
RECURSIVE ISqrtIn(_, _, _)
ISqrtIn(n, lo, hi) ==
    IF hi - lo <= 1 THEN lo
    ELSE LET mid == (lo + hi) \div 2
         IN  IF mid * mid <= n THEN ISqrtIn(n, mid, hi) ELSE ISqrtIn(n, lo, mid)

ISqrt(n) == ISqrtIn(n, 0, 46341)

\* np.linalg.norm, rounded down to the grid.
Norm(v) == ISqrt(SumSq(v))

Abs(x) == IF x < 0 THEN -x ELSE x

\* x.astype(np.float32) of a grid value: a 24-bit significand, round half up.
RECURSIVE Float32Shift(_, _)
Float32Shift(m, s) ==
    IF m < 16777216 THEN m * s
    ELSE Float32Shift((m + 1) \div 2, s * 2)

astype_float32(x) == IF x < 0 THEN -Float32Shift(-x, 1) ELSE Float32Shift(x, 1)

VFloat32(v) == [k \in 1..Len(v) |-> astype_float32(v[k])]

EmptyDict == [k \in {} |-> 0]

----------------------------------------------------------------------------
(* Constants of the code *)

\* self.threshold_height = 0.5
threshold_height == 5000

\* self.episode_length = 200
episode_length == 200

\* self.control_freq = 50
control_freq == 50

\* ERROR_TOLERANCE = 1e-2
ERROR_TOLERANCE == 100

MAX_ITERATIONS == 5

\* nb_dof=6
nb_dof == 6

\* if ee_to_cube < 0.05
success_distance == 500

\* displace_object(square_size=0.1, ...)
reset_square_size == 1000

\* self.cube_origin_pos = [0.03390873, 0.22571199, 0.04]
cube_origin_pos == <<339, 2257, 400>>

\* self.cube_low / self.cube_high of ReachCubeEnv
cube_low == <<-1500, 1000, 150>>

cube_high == <<1500, 2500, 150>>

target_low == <<-314159000, -157080000, -148353000, -191986000, -296706000, -174533000>>

target_high == <<314159000, 122173000, 174533000, 191986000, 296706000, 5235990>>

\* self.q0 = (self.target_high + self.target_low) / 2 ; self.q0[3] += 1.57
q0 ==
    LET mid == [k \in 1..nb_dof |-> (target_high[k] + target_low[k]) \div 2]
    IN  [mid EXCEPT ![4] = @ + 157000000]

cube_rot == <<1, 0, 0, 0>>

robot_qpos == Zeros(6)

----------------------------------------------------------------------------
(* The physics engine: mujoco.MjData, mj_forward, mj_step, mj_jac *)

\* What the engine may compute, as the sets its results are drawn from:
\*   ee    positions forward kinematics puts the body "moving_side" at
\*   pose  whether a step may raise and tip the cube
\*   qdot  joint rates the damped pseudoinverse of the Jacobian yields
Engine ==
    [ee   |-> { <<-161, 757, 1400>>, <<-161, 1757, 700>> },
     pose |-> {"kept", "raised"},
     qdot |-> { <<2000, 0, 0, 0, 0, 0>>, <<1000, 0, 0, 0, 0, 0>> }]

\* The engine on a scene where the arm hovers next to the cube.
QuietEngine ==
    [ee   |-> { <<-161, 1757, 700>> },
     pose |-> {"kept", "raised"},
     qdot |-> { <<2000, 0, 0, 0, 0, 0>> }]

\* A cube raised above the threshold, and an orientation other than identity.
Raised(cube_pos) == [cube_pos EXCEPT ![3] = threshold_height + 1000]

Tipped == <<0, 1, 0, 0>>

MovingQvel == [k \in 1..12 |-> IF k > 6 THEN 1 ELSE 0]

\* mujoco.MjData(self.model): the pose of the model file, nothing computed.
MjData ==
    [qpos |-> <<0, 0, 0>> \o cube_rot \o robot_qpos,
     qvel |-> Zeros(12),
     xpos |-> [cube |-> <<0, 0, 0>>, moving_side |-> <<0, 0, 0>>],
     ctrl |-> Zeros(6)]

\* mujoco.mj_forward: body positions from qpos; qpos is left alone.
mj_forward(d, engine) ==
    { [d EXCEPT !.xpos = [cube |-> Slice(d.qpos, 0, 3), moving_side |-> e]] :
        e \in engine.ee }

\* The integrator of mujoco.mj_step: the cube keeps its pose or is raised and
\* tipped; the arm is still on its way (and has velocity) or rests at the
\* control target.
mj_integrate(d, engine) ==
    { [d EXCEPT
         !.qpos = (IF p = "raised"
                   THEN Raised(Slice(d.qpos, 0, 3)) \o Tipped
                   ELSE Slice(d.qpos, 0, 7)) \o a,
         !.qvel = IF a = d.ctrl THEN Zeros(12) ELSE MovingQvel] :
        p \in engine.pose, a \in {Slice(d.qpos, 7, 13), d.ctrl} }

\* mujoco.mj_step: forward, then integrate.
mj_step(d, engine) == UNION { mj_integrate(f, engine) : f \in mj_forward(d, engine) }

----------------------------------------------------------------------------
(* np.random.uniform and displace_object *)

\* Samples of np.random.uniform(low, high): low + (high - low) * [0, 1).
uniform(low, high) ==
    IF low = high THEN {low}
    ELSE IF low < high THEN {low, high - 1}
    ELSE {low, high + 1}

displace_object(square_size, invert_y, origin_pos) ==
    IF ~invert_y
    THEN { <<x, y, origin_pos[3]>> :
             x \in uniform(origin_pos[1] - square_size \div 2, origin_pos[1] + square_size \div 2),
             y \in uniform(origin_pos[2] - square_size \div 2, origin_pos[2] + square_size \div 2) }
    ELSE { <<x, y, origin_pos[3]>> :
             x \in uniform(origin_pos[1] + square_size \div 2, origin_pos[1] - square_size \div 2),
             y \in uniform(origin_pos[2] + square_size \div 2, origin_pos[2] - square_size \div 2) }

----------------------------------------------------------------------------
(* Values of the call bookkeeping *)

NoCall == [op |-> "init", raised |-> "None", observation |-> EmptyDict,
           reward |-> 0, terminated |-> FALSE, truncated |-> FALSE,
           info |-> EmptyDict]

Running == [NoCall EXCEPT !.op = "step", !.raised = "running"]

NoIK == [i |-> 0]

NoReset == [seen |-> FALSE, changed |-> FALSE]

\* History: every field a LiftCubeEnv reset writes holds another value.
ChangedSinceReset ==
    /\ step_idx > 0
    /\ done
    /\ timeout
    /\ Slice(data.qpos, 7, 13) # robot_qpos
    /\ Slice(data.qpos, 3, 7) # cube_rot
    /\ data.qpos[3] # cube_origin_pos[3]

----------------------------------------------------------------------------
(* LiftCubeEnv *)

\* The table of the class docstring: the keys of each observation mode.
LiftCubeEnv_documented_keys(mode) ==
    {"arm_qpos", "arm_qvel"}
    \cup (IF mode \in {"image", "both"} THEN {"image_front", "image_top"} ELSE {})
    \cup (IF mode \in {"state", "both"} THEN {"cube_pos"} ELSE {})

\* The observation_space built by LiftCubeEnv.__init__: key |-> shape.
LiftCubeEnv_observation_space(mode) ==
    [ee_pos |-> <<3>>, gripper_qpos |-> <<1>>]
    @@ (IF mode \in {"image", "both"}
        THEN [image_front |-> <<240, 320, 3>>, image_top |-> <<240, 320, 3>>]
        ELSE EmptyDict)
    @@ (IF mode \in {"state", "both"} THEN [object_qpos |-> <<3>>] ELSE EmptyDict)

LiftCubeEnv_get_observation(d, mode) ==
    [ee_pos |-> VFloat32(d.xpos.moving_side),
     gripper_qpos |-> <<astype_float32(d.qpos[13])>>]
    @@ (IF mode \in {"image", "both"}
        THEN [image_front |-> "camera_front", image_top |-> "camera_top"]
        ELSE EmptyDict)
    @@ (IF mode \in {"state", "both"}
        THEN [object_qpos |-> VFloat32(Slice(d.qpos, 0, 3))]
        ELSE EmptyDict)

\* Variant: only the cube position is written, the rest of qpos is kept.
LiftCubeEnv_reset_qpos_cube_only(cube_pos) == cube_pos \o Slice(data.qpos, 3, 13)

\* np.concatenate([cube_pos, cube_rot, robot_qpos])
LiftCubeEnv_reset_qpos(cube_pos) == cube_pos \o cube_rot \o robot_qpos

\* cube_pos = self.data.qpos[:3]; ee_pos = self.data.xpos[ee_id]
LiftCubeEnv_ee_to_cube(d) == Norm(VSub(d.xpos.moving_side, Slice(d.qpos, 0, 3)))

\* Variant: the height term is missing, as in ReachCubeEnv.step.
LiftCubeEnv_reward_distance_only(d) == -LiftCubeEnv_ee_to_cube(d)

LiftCubeEnv_reward(d) ==
    LET cube_z == Slice(d.qpos, 0, 3)[3]
        reward_height == cube_z - threshold_height
        reward_distance == -LiftCubeEnv_ee_to_cube(d)
    IN  reward_height + reward_distance

\* for i in range(int(200 / self.control_freq)): self.data.ctrl = target_qpos; mj_step
RECURSIVE LiftCubeEnv_control_loop(_, _, _, _)
LiftCubeEnv_control_loop(D, target_qpos, n, engine) ==
    IF n = 0 THEN D
    ELSE LiftCubeEnv_control_loop(
             UNION { mj_step([d EXCEPT !.ctrl = target_qpos], engine) : d \in D },
             target_qpos, n - 1, engine)

\* apply_action, "joint" branch: the control target of an action.
LiftCubeEnv_joint_target(action) ==
    [k \in 1..nb_dof |-> (action[k] * (target_high[k] - target_low[k])) \div 2 + q0[k]]

\* Actions of the "joint" mode, each component in [-1, 1].
JointActions == { [k \in 1..6 |-> 0], [k \in 1..6 |-> 1] }

\* Actions of the "ee" mode: a displacement (1e-4 m) and a gripper angle
\* (1e-8 rad).  The first stays within ERROR_TOLERANCE of the end effector,
\* the second leads from one position of the engine to the other.
EEActions == { <<0, 60, 0, 0>>, <<0, 1000, -700, -50000000>> }

\* Samples of the action_space __init__ declares: shape {"joint": 6, "ee": 4}.
action_space(mode) == IF mode = "joint" THEN JointActions ELSE EEActions

LiftCubeEnv_reset(engine) ==
    /\ cls = "LiftCubeEnv"
    /\ pc = "idle"
    /\ \E cube_pos \in displace_object(reset_square_size, FALSE, cube_origin_pos) :
       \E d \in mj_forward([data EXCEPT !.qpos = LiftCubeEnv_reset_qpos(cube_pos)], engine) :
          /\ data' = d
          /\ ret' = [NoCall EXCEPT !.op = "reset",
                       !.observation = LiftCubeEnv_get_observation(d, observation_mode)]
    /\ done' = FALSE
    /\ timeout' = FALSE
    /\ step_idx' = 0
    /\ reset_from' = [seen |-> TRUE, changed |-> ChangedSinceReset]
    /\ UNCHANGED <<cls, observation_mode, action_mode, info, pc, ik>>

\* step once apply_action has its target_qpos, on simulation state d.
LiftCubeEnv_step_rest(d, target_qpos, engine) ==
    \E d2 \in LiftCubeEnv_control_loop({d}, target_qpos, 200 \div control_freq, engine) :
       LET ee_to_cube == LiftCubeEnv_ee_to_cube(d2)
           is_success == ee_to_cube < success_distance
           idx == step_idx + 1
           tmo == IF idx >= episode_length THEN TRUE ELSE timeout
           inf == [step |-> idx, is_success |-> is_success,
                   timestamp |-> (idx * 100) \div control_freq]
       IN  /\ data' = d2
           /\ done' = IF is_success THEN TRUE ELSE done
           /\ step_idx' = idx
           /\ info' = inf
           /\ timeout' = tmo
           /\ ret' = [op |-> "step", raised |-> "None",
                      observation |-> LiftCubeEnv_get_observation(d2, observation_mode),
                      reward |-> LiftCubeEnv_reward(d2),
                      terminated |-> FALSE, truncated |-> tmo, info |-> inf]
           /\ pc' = "idle"
           /\ ik' = NoIK
           /\ reset_from' = NoReset
           /\ UNCHANGED <<cls, observation_mode, action_mode>>

LiftCubeEnv_step_joint(action, engine) ==
    /\ cls = "LiftCubeEnv"
    /\ action_mode = "joint"
    /\ pc = "idle"
    /\ LiftCubeEnv_step_rest(data, LiftCubeEnv_joint_target(action), engine)

----------------------------------------------------------------------------
(* LiftCubeEnv.inverse_kinematics, one action per position of the call *)

\* Variant: the loop has no iteration cap.
inverse_kinematics_continues_uncapped(error, i) ==
    SumSq(error) > ERROR_TOLERANCE * ERROR_TOLERANCE

\* while np.linalg.norm(error) > ERROR_TOLERANCE and i < MAX_ITERATIONS
\* (the norms are compared by their squares, which is exact on the grid)
inverse_kinematics_continues(error, i) ==
    SumSq(error) > ERROR_TOLERANCE * ERROR_TOLERANCE /\ i < MAX_ITERATIONS

\* qdot_norm = np.linalg.norm(qdot); if qdot_norm > 1.0: qdot /= qdot_norm
inverse_kinematics_normalize(qdot) ==
    LET qdot_norm == Norm(qdot)
    IN  IF qdot_norm > 1000
        THEN [k \in 1..Len(qdot) |-> (qdot[k] * 1000) \div qdot_norm]
        ELSE qdot

\* self.data.qpos[7:13] += qdot * step   (step = 0.05: 1e-3 rad is 1e5 units)
inverse_kinematics_update(qpos, qdot) ==
    Slice(qpos, 0, 7) \o [k \in 1..nb_dof |-> qpos[7 + k] + qdot[k] * 5000]

\* Variant: the joints are not put back.
inverse_kinematics_restore_skipped(qpos, q_pos) == qpos

\* self.data.qpos[7:13] = q_pos
inverse_kinematics_restore(qpos, q_pos) == Slice(qpos, 0, 7) \o q_pos

\* step, "ee" branch of apply_action, up to the entry of the loop of
\* inverse_kinematics.
LiftCubeEnv_step_ee(action) ==
    /\ cls = "LiftCubeEnv"
    /\ action_mode = "ee"
    /\ pc = "idle"
    /\ LET ee_action == Slice(action, 0, 3)
           gripper_action == action[Len(action)]
           ee_target_pos == VAdd(data.xpos.moving_side, ee_action)
           ee_pos == data.xpos.moving_side
       IN  ik' = [i |-> 0,
                  ee_target_pos |-> ee_target_pos,
                  gripper_action |-> gripper_action,
                  error |-> VSub(ee_target_pos, ee_pos),
                  q_pos |-> Slice(data.qpos, 7, 13),
                  entry_qpos |-> data.qpos,
                  entry_error |-> VSub(ee_target_pos, ee_pos),
                  q_target_pos |-> <<>>]
    /\ pc' = "ik_loop"
    /\ ret' = Running
    /\ reset_from' = NoReset
    /\ UNCHANGED <<cls, observation_mode, action_mode, data, step_idx, done,
                   timeout, info>>

\* One iteration of the loop.
inverse_kinematics_iterate(engine) ==
    /\ pc = "ik_loop"
    /\ inverse_kinematics_continues(ik.error, ik.i)
    /\ \E d \in mj_forward(data, engine), qdot_raw \in engine.qdot :
         LET ee_pos == VFloat32(d.xpos.moving_side)
             qdot == inverse_kinematics_normalize(qdot_raw)
         IN  /\ data' = [d EXCEPT !.qpos = inverse_kinematics_update(d.qpos, qdot)]
             /\ ik' = [ik EXCEPT !.error = VSub(ik.ee_target_pos, ee_pos),
                                 !.i = @ + 1]
    /\ UNCHANGED <<cls, observation_mode, action_mode, step_idx, done, timeout,
                   info, pc, ret, reset_from>>

\* The loop is left: q_target_pos is copied, the joints are put back.
inverse_kinematics_return ==
    /\ pc = "ik_loop"
    /\ ~inverse_kinematics_continues(ik.error, ik.i)
    /\ ik' = [ik EXCEPT !.q_target_pos = Slice(data.qpos, 7, 13)]
    /\ data' = [data EXCEPT !.qpos = inverse_kinematics_restore(data.qpos, ik.q_pos)]
    /\ pc' = "ik_ret"
    /\ UNCHANGED <<cls, observation_mode, action_mode, step_idx, done, timeout,
                   info, ret, reset_from>>

\* Back in apply_action: target_qpos[-1:] = gripper_action, then the rest of step.
LiftCubeEnv_step_ee_rest(engine) ==
    /\ pc = "ik_ret"
    /\ LET target_qpos == [ik.q_target_pos EXCEPT ![nb_dof] = ik.gripper_action]
       IN  LiftCubeEnv_step_rest(data, target_qpos, engine)

----------------------------------------------------------------------------
(* ReachCubeEnv *)

ReachCubeEnv_observation_space(mode) ==
    [arm_qpos |-> <<6>>, arm_qvel |-> <<6>>]
    @@ (IF mode \in {"image", "both"}
        THEN [image_front |-> <<240, 320, 3>>, image_top |-> <<240, 320, 3>>]
        ELSE EmptyDict)
    @@ (IF mode \in {"state", "both"} THEN [cube_pos |-> <<3>>] ELSE EmptyDict)

ReachCubeEnv_get_observation(d, mode) ==
    [arm_qpos |-> VFloat32(Slice(d.qpos, 7, 13)),
     arm_qvel |-> VFloat32(Slice(d.qvel, 6, 12))]
    @@ (IF mode \in {"image", "both"}
        THEN [image_front |-> "camera_front", image_top |-> "camera_top"]
        ELSE EmptyDict)
    @@ (IF mode \in {"state", "both"}
        THEN [cube_pos |-> VFloat32(Slice(d.qpos, 0, 3))]
        ELSE EmptyDict)

\* Variant: the "ee" branch raises only after the simulation was stepped.
ReachCubeEnv_apply_action_raise_late(d, mode, action, engine) ==
    IF mode = "ee"
    THEN [raised |-> "NotImplementedError", data |-> mj_step(d, engine)]
    ELSE [raised |-> "ValueError", data |-> {d}]

\* apply_action: what it raises, and the simulation states it can leave.
ReachCubeEnv_apply_action(d, mode, action, engine) ==
    IF mode = "ee"
    THEN [raised |-> "NotImplementedError", data |-> {d}]
    ELSE IF mode = "joint"
    THEN LET target_qpos ==
                 [k \in 1..nb_dof |->
                     (action[k] * (target_high[k] - target_low[k])) \div 2
                     + (target_high[k] + target_low[k]) \div 2]
         IN  [raised |-> "None",
              data |-> mj_step([d EXCEPT !.ctrl = target_qpos], engine)]
    ELSE [raised |-> "ValueError", data |-> {d}]

\* cube_pos = self.data.xpos[2]; ee_pos = self.data.xpos[8]; reward = -ee_to_cube
ReachCubeEnv_reward(d) ==
    LET cube_pos == d.xpos.cube
        ee_pos == d.xpos.moving_side
        ee_to_cube == Norm(VSub(ee_pos, cube_pos))
    IN  -ee_to_cube

ReachCubeEnv_reset(engine) ==
    /\ cls = "ReachCubeEnv"
    /\ pc = "idle"
    /\ \E x \in uniform(cube_low[1], cube_high[1]),
          y \in uniform(cube_low[2], cube_high[2]),
          z \in uniform(cube_low[3], cube_high[3]) :
       \E d \in mj_forward([data EXCEPT !.qpos = <<x, y, z>> \o cube_rot \o robot_qpos],
                           engine) :
          /\ data' = d
          /\ ret' = [NoCall EXCEPT !.op = "reset",
                       !.observation = ReachCubeEnv_get_observation(d, observation_mode)]
    /\ reset_from' = [seen |-> TRUE, changed |-> ChangedSinceReset]
    /\ UNCHANGED <<cls, observation_mode, action_mode, step_idx, done, timeout,
                   info, pc, ik>>

ReachCubeEnv_step(action, engine) ==
    /\ cls = "ReachCubeEnv"
    /\ pc = "idle"
    /\ LET applied == ReachCubeEnv_apply_action(data, action_mode, action, engine)
       IN  IF applied.raised # "None"
           THEN /\ data' \in applied.data
                /\ ret' = [NoCall EXCEPT !.op = "step", !.raised = applied.raised]
           ELSE \E d \in applied.data :
                   /\ data' = d
                   /\ ret' = [op |-> "step", raised |-> "None",
                              observation |-> ReachCubeEnv_get_observation(d, observation_mode),
                              reward |-> ReachCubeEnv_reward(d),
                              terminated |-> FALSE, truncated |-> FALSE,
                              info |-> EmptyDict]
    /\ reset_from' = NoReset
    /\ UNCHANGED <<cls, observation_mode, action_mode, step_idx, done, timeout,
                   info, pc, ik>>

----------------------------------------------------------------------------
(* Construction and the specifications *)

Init ==
    /\ cls \in {"LiftCubeEnv", "ReachCubeEnv"}
    /\ observation_mode \in {"image", "state", "both"}
    /\ action_mode \in {"joint", "ee"}
    /\ data = MjData
    /\ step_idx = 0
    /\ done = FALSE
    /\ timeout = FALSE
    /\ info = [step |-> 0, is_success |-> FALSE, timestamp |-> 0]
    /\ pc = "idle"
    /\ ik = NoIK
    /\ ret = NoCall
    /\ reset_from = NoReset

Next ==
    \/ LiftCubeEnv_reset(Engine)
    \/ \E action \in action_space(action_mode) :
          step_idx < MaxSteps /\ LiftCubeEnv_step_joint(action, Engine)
    \/ \E action \in action_space(action_mode) :
          step_idx < MaxSteps /\ LiftCubeEnv_step_ee(action)
    \/ inverse_kinematics_iterate(Engine)
    \/ inverse_kinematics_return
    \/ LiftCubeEnv_step_ee_rest(Engine)
    \/ ReachCubeEnv_reset(Engine)
    \/ \E action \in action_space(action_mode) : ReachCubeEnv_step(action, Engine)

Spec == Init /\ [][Next]_vars

\* Whole episodes of a LiftCubeEnv in "joint" mode, past episode_length.
InitEpisode ==
    Init /\ cls = "LiftCubeEnv" /\ action_mode = "joint" /\ observation_mode = "state"

NextEpisode ==
    \/ LiftCubeEnv_reset(QuietEngine)
    \/ step_idx < episode_length + MaxOverrun
       /\ \E action \in {[k \in 1..6 |-> 1]} \cap action_space(action_mode) :
             LiftCubeEnv_step_joint(action, QuietEngine)

SpecEpisode == InitEpisode /\ [][NextEpisode]_vars

----------------------------------------------------------------------------
(* The claims *)

\* C1: inverse_kinematics terminates: its loop runs at most MAX_ITERATIONS
\* iterations, and none when the error at entry is within ERROR_TOLERANCE, in
\* which case the returned target is the arm's joint positions at entry.
C1_IKBounded ==
    /\ pc \in {"ik_loop", "ik_ret"} => ik.i <= MAX_ITERATIONS
    /\ (pc = "ik_loop" /\ ik.i = MAX_ITERATIONS)
         => ~inverse_kinematics_continues(ik.error, ik.i)
    /\ (pc = "ik_ret"
        /\ SumSq(ik.entry_error) <= ERROR_TOLERANCE * ERROR_TOLERANCE)
         => /\ ik.i = 0
            /\ ik.q_target_pos = Slice(ik.entry_qpos, 7, 13)
            /\ ik.q_target_pos = Slice(data.qpos, 7, 13)

\* The cap ends a call that started from moved joints with the error still large.
C1_Witness ==
    /\ pc = "ik_ret"
    /\ ik.i = MAX_ITERATIONS
    /\ SumSq(ik.error) > ERROR_TOLERANCE * ERROR_TOLERANCE
    /\ Slice(ik.entry_qpos, 7, 13) # robot_qpos

\* C2: the reward a LiftCubeEnv step returns is (cube z - threshold_height)
\* plus minus the distance from the end effector to the cube, both taken
\* from the simulation state the step leaves.
C2_LiftRewardIsSum ==
    (cls = "LiftCubeEnv" /\ pc = "idle" /\ ret.op = "step")
      => ret.reward = (data.qpos[3] - threshold_height)
                      + (0 - Norm(VSub(data.xpos.moving_side, Slice(data.qpos, 0, 3))))

\* A step in "ee" mode during which the cube was raised.
C2_Witness ==
    /\ cls = "LiftCubeEnv"
    /\ action_mode = "ee"
    /\ pc = "idle"
    /\ ret.op = "step"
    /\ data.qpos[3] > threshold_height
    /\ data.xpos.cube[3] < threshold_height
    /\ ret.reward # 0 - Norm(VSub(data.xpos.moving_side, Slice(data.qpos, 0, 3)))

\* C3: the reward a ReachCubeEnv step returns is the height of the cube
\* above the threshold plus minus the distance from the end effector to the
\* cube.
C3_ReachRewardIsSum ==
    (cls = "ReachCubeEnv" /\ ret.op = "step" /\ ret.raised = "None")
      => ret.reward = (data.xpos.cube[3] - threshold_height)
                      + (0 - Norm(VSub(data.xpos.moving_side, data.xpos.cube)))

\* C4: the observations LiftCubeEnv.reset and LiftCubeEnv.step return have
\* the keys of the documented table, and the keys of observation_space.
C4_LiftObservationKeys ==
    (cls = "LiftCubeEnv" /\ pc = "idle" /\ ret.op \in {"reset", "step"})
      => /\ DOMAIN ret.observation = LiftCubeEnv_documented_keys(observation_mode)
         /\ DOMAIN ret.observation
              = DOMAIN LiftCubeEnv_observation_space(observation_mode)

\* C5: after LiftCubeEnv.reset the arm joints are 0, the cube orientation is
\* the identity, the cube lies within square_size/2 of cube_origin_pos in x
\* and y at cube_origin_pos z, and step_idx = 0, done = False, timeout = False.
C5_LiftResetRestores ==
    (cls = "LiftCubeEnv" /\ ret.op = "reset")
      => /\ Slice(data.qpos, 7, 13) = Zeros(6)
         /\ Slice(data.qpos, 3, 7) = <<1, 0, 0, 0>>
         /\ Abs(data.qpos[1] - cube_origin_pos[1]) <= reset_square_size \div 2
         /\ Abs(data.qpos[2] - cube_origin_pos[2]) <= reset_square_size \div 2
         /\ data.qpos[3] = cube_origin_pos[3]
         /\ step_idx = 0
         /\ done = FALSE
         /\ timeout = FALSE

\* A reset of an episode that had timed out, succeeded, moved the arm and
\* raised and tipped the cube.
C5_Witness ==
    /\ cls = "LiftCubeEnv"
    /\ ret.op = "reset"
    /\ reset_from.seen
    /\ reset_from.changed
    /\ info.step >= episode_length

C7_IKLeavesQpos ==
    /\ pc = "ik_ret" => data.qpos = ik.entry_qpos
    /\ pc \in {"ik_loop", "ik_ret"}
         => Slice(data.qpos, 0, 7) = Slice(ik.entry_qpos, 0, 7)

\* A return after five iterations whose target differs from the joints.
C7_Witness ==
    /\ pc = "ik_ret"
    /\ ik.i = MAX_ITERATIONS
    /\ ik.q_target_pos # Slice(data.qpos, 7, 13)
    /\ Slice(data.qpos, 3, 7) # cube_rot

====
